---- MODULE Spec2Model ----
(***************************************************************************)
(* titanium-rose: ElGamal key delivery over a fixed safe-prime group       *)
(* (crypto/elgamal.rs), the authenticated CBC cipher (crypto/mod.rs) with  *)
(* HMAC (crypto/hmac.rs) and SHA-256 (crypto/sha256.rs), and the screens   *)
(* of main.rs: the setup screens that relay the key, and the final screen  *)
(* with its encrypt and decrypt worker threads.                            *)
(*                                                                         *)
(* The group arithmetic is scaled: Int is BITS = 5 bits wide instead of    *)
(* 2048, p = 2q + 1 = 23 fills the whole width as the real p does, and a   *)
(* byte of an Int's wire form or of embedded key material is one bit wide. *)
(* The cipher, HMAC and SHA-256 work on real bytes with the real sizes;    *)
(* the block cipher, a stub in twofish.rs, is a keyed permutation.         *)
(***************************************************************************)
EXTENDS Integers, Sequences, FiniteSets, TLC

VARIABLES
    \* ---- pow ladder (elgamal.rs pow), two runs on the same base
    pw_pc,      \* <<pc1, pc2>>, each "idle" | "loop" | "done"
    pw_base,    \* the base both runs share
    pw_exp,     \* <<e1, e2>>
    pw_st,      \* <<s1, s2>>, each [result, a, i]: the loop's locals
    pw_ops,     \* <<t1, t2>>: the operations each run has executed
    \* ---- key exchange over the relay screens (main.rs, elgamal.rs)
    app,        \* MyEguiApp: screen, role object, worker thread, channel
    peer,       \* the honest peer whose output was pasted, if one was
    \* ---- the authenticated cipher (crypto/mod.rs)
    skey,       \* the SymmetricKey: <<twofish::Key, hmac::Key>>
    enc_call,        \* the encrypt call that was made, with its locals
    dec_call,        \* the decrypt call in progress, with its locals
    \* ---- single calls of the library's functions
    call,       \* [fn, args, result]: the call that was made
    gen,        \* generate_exponent: its loop position, draw and results
    \* ---- the final screen and its two worker threads (main.rs)
    ui,         \* the fields of MyEguiApp::Final
    encryptor,  \* the encrypt worker: position, request and response channel
    decryptor   \* the decrypt worker: position, request and response channel

pw_vars == <<pw_pc, pw_base, pw_exp, pw_st, pw_ops>>

kx_vars == <<app, peer>>

ci_vars == <<skey, enc_call, dec_call>>

fn_vars == <<call, gen>>

fin_vars == <<ui, encryptor, decryptor>>

vars ==
    <<pw_pc, pw_base, pw_exp, pw_st, pw_ops, app, peer, skey, enc_call, dec_call,
      call, gen, ui, encryptor, decryptor>>

-----------------------------------------------------------------------------
(* Group parameters, elgamal.rs:8-15 (scaled).                             *)

\* Int::BITS: the width of Int
BITS == 5

\* 2^n, n <= 30
TwoTo ==
    <<1, 2, 4, 8, 16, 32, 64, 128, 256, 512, 1024, 2048, 4096, 8192, 16384, 32768,
      65536, 131072, 262144, 524288, 1048576, 2097152, 4194304, 8388608, 16777216,
      33554432, 67108864, 134217728, 268435456, 536870912, 1073741824>>

Pow2(n) == TwoTo[n + 1]

\* the values an Int can hold
IntRange == 0 .. (Pow2(BITS) - 1)

Q == 11

\* P = Q.shl(1).saturating_add(1): no overflow, P < 2^BITS
P == 2 * Q + 1

G == 13

-----------------------------------------------------------------------------
(* Modular arithmetic, elgamal.rs:27-56.                                   *)

mul_single_width(lhs, rhs) == ((lhs * rhs) % Pow2(BITS)) % P

\* lhs * rhs (mod p): the double-width product, reduced, narrowed back
mul(lhs, rhs) == (lhs * rhs) % P

\* Uint::bit(i)
bit(x, i) == (x \div Pow2(i)) % 2

\* result.conditional_assign(&multiplied, bit)
conditional_assign(result, multiplied, choice) ==
    IF choice = 1 THEN multiplied ELSE result

\* the loop condition of `for i in 0..Int::BITS`
pow_continue_early(s, exp) == s.i < BITS /\ exp \div Pow2(s.i) # 0

pow_continue(s, exp) == s.i < BITS

\* the locals before the loop
pow_start(base) == [result |-> 1, a |-> base, i |-> 0]

\* one iteration of the loop body, lines 43-47
pow_iter(s, exp) ==
    LET multiplied == mul(s.result, s.a)
    IN  [result |-> conditional_assign(s.result, multiplied, bit(exp, s.i)),
         a      |-> mul(s.a, s.a),
         i      |-> s.i + 1]

\* the operations one iteration executes, in order
pow_iter_ops(s, exp) ==
    << <<"mul", s.i>>, <<"select", s.i>>, <<"square", s.i>> >>

RECURSIVE pow_loop(_, _)
pow_loop(s, exp) ==
    IF pow_continue(s, exp) THEN pow_loop(pow_iter(s, exp), exp) ELSE s.result

\* base^exp (mod p)
pow(base, exp) == pow_loop(pow_start(base), exp)

\* Q.checked_sub(exp).unwrap() panics when exp > Q
inv_pow_panics(exp) == exp > Q

inv_pow_off_by_one(base, exp) == pow(base, Q - exp + 1)

\* base^(-exp) (mod p), where it does not panic
inv_pow(base, exp) == pow(base, Q - exp)

-----------------------------------------------------------------------------
(* The ladder as a state machine: two runs of pow on one base, stepped     *)
(* together, each recording the operations it executes.                    *)

PwIdle == [result |-> 0, a |-> 0, i |-> 0]

PwIdleInit ==
    /\ pw_pc = <<"idle", "idle">>
    /\ pw_base = 0
    /\ pw_exp = <<0, 0>>
    /\ pw_st = <<PwIdle, PwIdle>>
    /\ pw_ops = <<<<>>, <<>>>>

\* pow(base, e1) and pow(base, e2) are called
PowCall ==
    /\ pw_pc = <<"idle", "idle">>
    /\ \E base \in IntRange, e1 \in IntRange, e2 \in IntRange :
        /\ pw_base' = base
        /\ pw_exp' = <<e1, e2>>
        /\ pw_st' = <<pow_start(base), pow_start(base)>>
    /\ pw_pc' = <<"loop", "loop">>
    /\ pw_ops' = <<<<>>, <<>>>>
    /\ UNCHANGED <<kx_vars, ci_vars, fn_vars, fin_vars>>

\* run r after one more step: an iteration, or the loop's exit
PwStepPc(r) ==
    IF pw_pc[r] = "loop" /\ ~pow_continue(pw_st[r], pw_exp[r]) THEN "done" ELSE pw_pc[r]

PwStepSt(r) ==
    IF pw_pc[r] = "loop" /\ pow_continue(pw_st[r], pw_exp[r])
    THEN pow_iter(pw_st[r], pw_exp[r]) ELSE pw_st[r]

PwStepOps(r) ==
    IF pw_pc[r] = "loop" /\ pow_continue(pw_st[r], pw_exp[r])
    THEN pw_ops[r] \o pow_iter_ops(pw_st[r], pw_exp[r]) ELSE pw_ops[r]

\* both runs take their next step
PowStep ==
    /\ \E r \in 1..2 : pw_pc[r] = "loop"
    /\ pw_pc' = <<PwStepPc(1), PwStepPc(2)>>
    /\ pw_st' = <<PwStepSt(1), PwStepSt(2)>>
    /\ pw_ops' = <<PwStepOps(1), PwStepOps(2)>>
    /\ UNCHANGED <<pw_base, pw_exp, kx_vars, ci_vars, fn_vars, fin_vars>>

PwNext == PowCall \/ PowStep

-----------------------------------------------------------------------------
(* Byte packing (crypto-bigint from_be_bytes / to_be_bytes / to_le_bytes). *)

\* bits in a scaled byte of the group model
EG_BYTE_BITS == 1

EG_BYTE == Pow2(EG_BYTE_BITS)

\* bytes in an Int's wire form
INT_BYTES == BITS \div EG_BYTE_BITS

RECURSIVE from_be_bytes(_, _)
from_be_bytes(bytes, radix) ==
    IF bytes = <<>> THEN 0
    ELSE from_be_bytes(SubSeq(bytes, 1, Len(bytes) - 1), radix) * radix + bytes[Len(bytes)]

RECURSIVE RadixPow(_, _)
RadixPow(radix, n) == IF n = 0 THEN 1 ELSE radix * RadixPow(radix, n - 1)

to_be_bytes(x, n, radix) == [k \in 1..n |-> (x \div RadixPow(radix, n - k)) % radix]

to_le_bytes(x, n, radix) == [k \in 1..n |-> (x \div RadixPow(radix, k - 1)) % radix]

RECURSIVE from_le_bytes(_, _)
from_le_bytes(bytes, radix) ==
    IF bytes = <<>> THEN 0
    ELSE bytes[1] + radix * from_le_bytes(Tail(bytes), radix)

\* every byte string of length n over the scaled byte
EgBytes(n) == [1..n -> 0 .. (EG_BYTE - 1)]

-----------------------------------------------------------------------------
(* SymmetricKey and its embedding in the group, mod.rs:13-44 (scaled key   *)
(* widths: the real ones are 32 and 64 bytes in a 256-byte Int).           *)

EG_TWOFISH_KEY_BYTES == 2

EG_HMAC_KEY_BYTES == 2

EG_KEY_BYTES == EG_TWOFISH_KEY_BYTES + EG_HMAC_KEY_BYTES

\* SymmetricKey(twofish::Key, hmac::Key)
EgSymmetricKeys ==
    { <<t, h>> : t \in EgBytes(EG_TWOFISH_KEY_BYTES), h \in EgBytes(EG_HMAC_KEY_BYTES) }

\* resize to the key's width keeps the low limbs; then the big-endian split
from_elgamal_int(int) ==
    LET bytes == to_be_bytes(int % RadixPow(EG_BYTE, EG_KEY_BYTES), EG_KEY_BYTES, EG_BYTE)
    IN  << SubSeq(bytes, 1, EG_TWOFISH_KEY_BYTES),
           SubSeq(bytes, EG_TWOFISH_KEY_BYTES + 1, EG_KEY_BYTES) >>

\* to_elgamal_int reading the bytes little-endian
to_elgamal_int_little_endian(key) == from_le_bytes(key[1] \o key[2], EG_BYTE)

to_elgamal_int(key) == from_be_bytes(key[1] \o key[2], EG_BYTE)

-----------------------------------------------------------------------------
(* Alice and Bob, elgamal.rs:17-25 and 58-118.                             *)

\* Int::random_mod(&mut OsRng, &NONZERO_Q)
random_mod_Q == 0 .. (Q - 1)

\* generate_exponent returning whatever was drawn
generate_exponent_returns_any(x) == TRUE

\* generate_exponent returns the draw unless it is zero, and draws again
generate_exponent_returns(x) == x # 0

\* Alice::generate with the exponent drawn
Alice_generate(secret) == [secret |-> secret, public |-> pow(G, secret)]

\* extract_shared_secret multiplying by the key instead of its inverse
Alice_extract_shared_secret_no_inverse(alice, eph) ==
    LET public == eph[1]
        enc == eph[2]
        inv_key == pow(public, alice.secret)
        plaintext == mul(enc, inv_key)
    IN  from_elgamal_int(plaintext)

\* Alice::extract_shared_secret, where inv_pow does not panic
Alice_extract_shared_secret(alice, eph) ==
    LET public == eph[1]
        enc == eph[2]
        inv_key == inv_pow(public, alice.secret)
        plaintext == mul(enc, inv_key)
    IN  from_elgamal_int(plaintext)

\* Bob::encrypt_for_alice with the ephemeral exponent drawn
Bob_encrypt_for_alice(secret, pk, exponent) ==
    LET public == pow(G, exponent)
        key == pow(pk, exponent)
        ciphertext == mul(key, to_elgamal_int(secret))
    IN  <<public, ciphertext>>

\* Bob::extract_shared_secret
Bob_extract_shared_secret(secret) == secret

-----------------------------------------------------------------------------
(* Wire forms, main.rs:174-175, 213-214, 252-253, 275-276: bincode over    *)
(* the derived Serialize/Deserialize of Int (fixed width, little-endian),  *)
(* carried as base64 text. A pasted text is [b64, bytes]: whether it is    *)
(* valid base64, and the bytes it decodes to.                              *)

serialize_int(x) == to_le_bytes(x, INT_BYTES, EG_BYTE)

\* bincode::serialize(alice.get_public())
serialize_pub(public) == serialize_int(public)

\* bincode::serialize(&eph)
serialize_eph(eph) == serialize_int(eph[1]) \o serialize_int(eph[2])

\* STANDARD_NO_PAD.encode(bytes)
b64_encode(bytes) == [b64 |-> TRUE, bytes |-> bytes]

\* STANDARD_NO_PAD.decode(input) is Ok
b64_decode_ok(text) == text.b64

\* bincode::deserialize::<AlicePub> is Ok: enough bytes for one Int (trailing
\* bytes are allowed, and no value of the width is refused)
deserialize_pub_ok(bytes) == Len(bytes) >= INT_BYTES

deserialize_pub(bytes) == from_le_bytes(SubSeq(bytes, 1, INT_BYTES), EG_BYTE)

\* bincode::deserialize::<BobEphemeral> is Ok: enough bytes for two Ints
deserialize_eph_ok(bytes) == Len(bytes) >= 2 * INT_BYTES

deserialize_eph(bytes) ==
    << from_le_bytes(SubSeq(bytes, 1, INT_BYTES), EG_BYTE),
       from_le_bytes(SubSeq(bytes, INT_BYTES + 1, 2 * INT_BYTES), EG_BYTE) >>

-----------------------------------------------------------------------------
(* The setup screens of MyEguiApp, main.rs:139-298. One instance becomes   *)
(* Alice or Bob at the Initial screen; the other party is the environment, *)
(* which pastes either an honest peer's output or any other text.          *)

NoText == [b64 |-> FALSE, bytes |-> <<>>]

NoAlice == [secret |-> 0, public |-> 0]

NoPeer == [honest |-> FALSE, a |-> 0, K |-> <<>>, b |-> 0]

KxIdleInit ==
    /\ app = [screen |-> "idle", thread |-> "none", chan |-> <<>>, alice |-> NoAlice,
              bob |-> <<>>, text |-> NoText, input |-> NoText, pk |-> 0,
              eph |-> <<>>, exponent |-> 0, key |-> <<>>]
    /\ peer = NoPeer

\* MyEguiApp::new without SKIP_SETUP: Self::default()
KxInit ==
    /\ app = [screen |-> "Initial", thread |-> "none", chan |-> <<>>, alice |-> NoAlice,
              bob |-> <<>>, text |-> NoText, input |-> NoText, pk |-> 0,
              eph |-> <<>>, exponent |-> 0, key |-> <<>>]
    /\ peer = NoPeer

\* texts that no honest peer produced: not base64, truncated, over-long, and
\* every byte string of the right length (so every value, those >= p too)
ForgedPubTexts ==
    {NoText}
      \cup { b64_encode(bytes) : bytes \in EgBytes(INT_BYTES) }
      \cup { b64_encode(bytes) : bytes \in { <<>>, [k \in 1..(INT_BYTES - 1) |-> 1],
                                             [k \in 1..(INT_BYTES + 1) |-> 1] } }

ForgedEphTexts ==
    {NoText}
      \cup { b64_encode(bytes) : bytes \in EgBytes(2 * INT_BYTES) }
      \cup { b64_encode(bytes) : bytes \in { <<>>, [k \in 1..(2 * INT_BYTES - 1) |-> 1],
                                             [k \in 1..(2 * INT_BYTES + 1) |-> 1] } }

\* "Start New Session (Alice)" clicked, lines 142-152
StartAlice ==
    /\ app.screen = "Initial"
    /\ app' = [app EXCEPT !.screen = "AliceGenerating", !.thread = "alice_generate"]
    /\ UNCHANGED <<peer, pw_vars, ci_vars, fn_vars, fin_vars>>

\* the spawned thread, lines 147-150: Alice::generate, then tx.send
AliceGenerateThread ==
    /\ app.thread = "alice_generate"
    /\ \E x \in random_mod_Q :
        IF generate_exponent_returns(x)
        THEN app' = [app EXCEPT !.chan = <<Alice_generate(x)>>, !.thread = "none"]
        ELSE UNCHANGED app
    /\ UNCHANGED <<peer, pw_vars, ci_vars, fn_vars, fin_vars>>

\* AliceSetup::Generating, rx.try_recv() is Ok, lines 172-181
AliceGenerated ==
    /\ app.screen = "AliceGenerating"
    /\ app.chan # <<>>
    /\ app' = [app EXCEPT !.alice = app.chan[1],
                          !.text = b64_encode(serialize_pub(app.chan[1].public)),
                          !.chan = <<>>,
                          !.screen = "AliceWaitingForBob"]
    /\ UNCHANGED <<peer, pw_vars, ci_vars, fn_vars, fin_vars>>

\* the two unwraps of a Continue handler succeed
continue_ok_eph(input) == b64_decode_ok(input) /\ deserialize_eph_ok(input.bytes)

continue_ok_pub(input) == b64_decode_ok(input) /\ deserialize_pub_ok(input.bytes)

\* AliceSetup::WaitingForBob, "Continue" clicked on the pasted input, lines 211-224
AliceContinueOn(input) ==
    IF continue_ok_eph(input)
    THEN app' = [app EXCEPT !.input = input,
                            !.eph = deserialize_eph(input.bytes),
                            !.thread = "extract",
                            !.screen = "AliceComputing"]
    ELSE app' = [app EXCEPT !.input = input, !.screen = "crashed"]

\* Bob's response, relayed unmodified
AliceContinueHonest ==
    /\ app.screen = "AliceWaitingForBob"
    /\ \E sk \in EgSymmetricKeys, b \in 1 .. (Q - 1) :
        /\ AliceContinueOn(b64_encode(serialize_eph(
               Bob_encrypt_for_alice(sk, deserialize_pub(app.text.bytes), b))))
        /\ peer' = [NoPeer EXCEPT !.honest = TRUE, !.K = sk, !.b = b]
    /\ UNCHANGED <<pw_vars, ci_vars, fn_vars, fin_vars>>

\* any other text
AliceContinueForged ==
    /\ app.screen = "AliceWaitingForBob"
    /\ \E input \in ForgedEphTexts : AliceContinueOn(input)
    /\ UNCHANGED <<peer, pw_vars, ci_vars, fn_vars, fin_vars>>

\* the spawned thread, lines 218-221: extract_shared_secret, then tx.send
AliceExtractThread ==
    /\ app.thread = "extract"
    /\ IF inv_pow_panics(app.alice.secret)
       THEN app' = [app EXCEPT !.thread = "dead"]
       ELSE app' = [app EXCEPT !.chan = <<Alice_extract_shared_secret(app.alice, app.eph)>>,
                               !.thread = "none"]
    /\ UNCHANGED <<peer, pw_vars, ci_vars, fn_vars, fin_vars>>

\* AliceSetup::Computing, rx.try_recv(), lines 232-236
AliceComputed ==
    /\ app.screen = "AliceComputing"
    /\ \/ app.chan # <<>>
       \/ app.thread = "dead"
    /\ IF app.chan # <<>>
       THEN app' = [app EXCEPT !.key = app.chan[1], !.chan = <<>>, !.screen = "Final"]
       ELSE app' = [app EXCEPT !.screen = "crashed"]
    /\ UNCHANGED <<peer, pw_vars, ci_vars, fn_vars, fin_vars>>

\* "Continue New Session (Bob)" clicked, lines 154-163: Bob::generate
StartBob ==
    /\ app.screen = "Initial"
    /\ \E sk \in EgSymmetricKeys :
        app' = [app EXCEPT !.bob = sk, !.screen = "BobWaitingForAlice"]
    /\ UNCHANGED <<peer, pw_vars, ci_vars, fn_vars, fin_vars>>

\* BobSetup::WaitingForAlice, "Continue" clicked on the pasted input, lines 250-265
BobContinueOn(input) ==
    IF continue_ok_pub(input)
    THEN app' = [app EXCEPT !.input = input,
                            !.pk = deserialize_pub(input.bytes),
                            !.thread = "encrypt",
                            !.screen = "BobGenerating"]
    ELSE app' = [app EXCEPT !.input = input, !.screen = "crashed"]

\* Alice's public key, relayed unmodified
BobContinueHonest ==
    /\ app.screen = "BobWaitingForAlice"
    /\ \E a \in 1 .. (Q - 1) :
        /\ BobContinueOn(b64_encode(serialize_pub(Alice_generate(a).public)))
        /\ peer' = [NoPeer EXCEPT !.honest = TRUE, !.a = a]
    /\ UNCHANGED <<pw_vars, ci_vars, fn_vars, fin_vars>>

BobContinueForged ==
    /\ app.screen = "BobWaitingForAlice"
    /\ \E input \in ForgedPubTexts : BobContinueOn(input)
    /\ UNCHANGED <<peer, pw_vars, ci_vars, fn_vars, fin_vars>>

\* the spawned thread, lines 258-261: encrypt_for_alice, then tx.send
BobEncryptThread ==
    /\ app.thread = "encrypt"
    /\ \E x \in random_mod_Q :
        IF generate_exponent_returns(x)
        THEN app' = [app EXCEPT !.chan = <<Bob_encrypt_for_alice(app.bob, app.pk, x)>>,
                                !.exponent = x,
                                !.thread = "none"]
        ELSE UNCHANGED app
    /\ UNCHANGED <<peer, pw_vars, ci_vars, fn_vars, fin_vars>>

\* BobSetup::Generating, rx.try_recv() is Ok, lines 273-278
BobGenerated ==
    /\ app.screen = "BobGenerating"
    /\ app.chan # <<>>
    /\ app' = [app EXCEPT !.eph = app.chan[1],
                          !.text = b64_encode(serialize_eph(app.chan[1])),
                          !.chan = <<>>,
                          !.screen = "BobFinal"]
    /\ UNCHANGED <<peer, pw_vars, ci_vars, fn_vars, fin_vars>>

\* BobSetup::Final, "Continue" clicked, lines 294-297
BobFinalContinue ==
    /\ app.screen = "BobFinal"
    /\ app' = [app EXCEPT !.key = Bob_extract_shared_secret(app.bob), !.screen = "Final"]
    /\ UNCHANGED <<peer, pw_vars, ci_vars, fn_vars, fin_vars>>

KxNext ==
    \/ StartAlice \/ AliceGenerateThread \/ AliceGenerated
    \/ AliceContinueHonest \/ AliceContinueForged
    \/ AliceExtractThread \/ AliceComputed
    \/ StartBob \/ BobContinueHonest \/ BobContinueForged
    \/ BobEncryptThread \/ BobGenerated \/ BobFinalContinue

-----------------------------------------------------------------------------
(* Bytes and 32-bit words. A Word is <<high 16 bits, low 16 bits>>.        *)

\* a function on 1..n as a tuple
Tup(f, n) == SubSeq(f, 1, n)

\* a ^ b and a & b on bytes, bit by bit
XorBits(a, b) ==
    (((a \div 1)
          + (b \div 1)) % 2) * 1
          + (((a \div 2)
          + (b \div 2)) % 2) * 2
          + (((a \div 4)
          + (b \div 4)) % 2) * 4
          + (((a \div 8)
          + (b \div 8)) % 2) * 8
          + (((a \div 16)
          + (b \div 16)) % 2) * 16
          + (((a \div 32)
          + (b \div 32)) % 2) * 32
          + (((a \div 64)
          + (b \div 64)) % 2) * 64
          + (((a \div 128)
          + (b \div 128)) % 2) * 128

AndBits(a, b) ==
    (((a \div 1) % 2) * ((b \div 1) % 2)) * 1
          + (((a \div 2) % 2) * ((b \div 2) % 2)) * 2
          + (((a \div 4) % 2) * ((b \div 4) % 2)) * 4
          + (((a \div 8) % 2) * ((b \div 8) % 2)) * 8
          + (((a \div 16) % 2) * ((b \div 16) % 2)) * 16
          + (((a \div 32) % 2) * ((b \div 32) % 2)) * 32
          + (((a \div 64) % 2) * ((b \div 64) % 2)) * 64
          + (((a \div 128) % 2) * ((b \div 128) % 2)) * 128

\* the two operations as tables
XorByte == Tup([a \in 1..256 |-> Tup([b \in 1..256 |-> XorBits(a - 1, b - 1)], 256)], 256)

AndByte == Tup([a \in 1..256 |-> Tup([b \in 1..256 |-> AndBits(a - 1, b - 1)], 256)], 256)

\* a ^ b on bytes
xor8(a, b) == XorByte[a + 1][b + 1]

\* ^ and & on Words, a byte at a time
wxor(a, b) ==
    <<xor8(a[1] \div 256, b[1] \div 256) * 256 + xor8(a[1] % 256, b[1] % 256),
      xor8(a[2] \div 256, b[2] \div 256) * 256 + xor8(a[2] % 256, b[2] % 256)>>

wand(a, b) ==
    <<AndByte[(a[1] \div 256) + 1][(b[1] \div 256) + 1] * 256
        + AndByte[(a[1] % 256) + 1][(b[1] % 256) + 1],
      AndByte[(a[2] \div 256) + 1][(b[2] \div 256) + 1] * 256
        + AndByte[(a[2] % 256) + 1][(b[2] % 256) + 1]>>

wnot(a) == <<65535 - a[1], 65535 - a[2]>>

wrapping_add(a, b) ==
    LET lo == a[2] + b[2]
    IN  <<(a[1] + b[1] + (lo \div 65536)) % 65536, lo % 65536>>

\* the halves swap when n >= 16
rotate_right(a, n) ==
    LET hi == IF n < 16 THEN a[1] ELSE a[2]
        lo == IF n < 16 THEN a[2] ELSE a[1]
        m == n % 16
    IN  <<(hi \div Pow2(m)) + (lo % Pow2(m)) * Pow2(16 - m),
          (lo \div Pow2(m)) + (hi % Pow2(m)) * Pow2(16 - m)>>

\* n < 16
wrapping_shr(a, n) ==
    <<a[1] \div Pow2(n), (a[2] \div Pow2(n)) + (a[1] % Pow2(n)) * Pow2(16 - n)>>

\* Word::to_be_bytes
word_to_be_bytes(w) == <<w[1] \div 256, w[1] % 256, w[2] \div 256, w[2] % 256>>

-----------------------------------------------------------------------------
(* SHA-256, sha256.rs.                                                     *)

DIGEST_BYTES == 32

sha256_BLOCK_BYTES == 64

START_HASH == <<
       <<27145, 58983>>, <<47975, 44677>>, <<15470, 62322>>, <<42319, 62778>>,
       <<20750, 21119>>, <<39685, 26764>>, <<8067, 55723>>, <<23520, 52505>>>>
\* the round constants, as <<high half, low half>>
K == <<
       <<17034, 12184>>, <<28983, 17553>>, <<46528, 64463>>, <<59829, 56229>>,
       <<14678, 49755>>, <<23025, 4593>>, <<37439, 33444>>, <<43804, 24277>>,
       <<55303, 43672>>, <<4739, 23297>>, <<9265, 34238>>, <<21772, 32195>>,
       <<29374, 23924>>, <<32990, 45566>>, <<39900, 1703>>, <<49563, 61812>>,
       <<58523, 27073>>, <<61374, 18310>>, <<4033, 40390>>, <<9228, 41420>>,
       <<11753, 11375>>, <<19060, 33962>>, <<23728, 43484>>, <<30457, 35034>>,
       <<38974, 20818>>, <<43057, 50797>>, <<45059, 10184>>, <<48985, 32711>>,
       <<50912, 3059>>, <<54695, 37191>>, <<1738, 25425>>, <<5161, 10599>>,
       <<10167, 2693>>, <<11803, 8504>>, <<19756, 28156>>, <<21304, 3347>>,
       <<25866, 29524>>, <<30314, 2747>>, <<33218, 51502>>, <<37490, 11397>>,
       <<41663, 59553>>, <<43034, 26187>>, <<49739, 35696>>, <<51052, 20899>>,
       <<53650, 59417>>, <<54937, 1572>>, <<62478, 13701>>, <<4202, 41072>>,
       <<6564, 49430>>, <<7735, 27656>>, <<10056, 30540>>, <<13488, 48309>>,
       <<14620, 3251>>, <<20184, 43594>>, <<23452, 51791>>, <<26670, 28659>>,
       <<29839, 33518>>, <<30885, 25455>>, <<33992, 30740>>, <<36039, 520>>,
       <<37054, 65530>>, <<42064, 27883>>, <<48889, 41975>>, <<50801, 30962>>>>

ch(x, y, z) == wxor(wand(x, y), wand(wnot(x), z))

maj(x, y, z) == wxor(wxor(wand(x, y), wand(x, z)), wand(y, z))

\* bs0 with its middle rotation one short
bs0_rotate_12(x) == wxor(wxor(rotate_right(x, 2), rotate_right(x, 12)), rotate_right(x, 22))

bs0(x) == wxor(wxor(rotate_right(x, 2), rotate_right(x, 13)), rotate_right(x, 22))

bs1(x) == wxor(wxor(rotate_right(x, 6), rotate_right(x, 11)), rotate_right(x, 25))

s0(x) == wxor(wxor(rotate_right(x, 7), rotate_right(x, 18)), wrapping_shr(x, 3))

s1(x) == wxor(wxor(rotate_right(x, 17), rotate_right(x, 19)), wrapping_shr(x, 10))

\* the message schedule, lines 17-25: schedule[t] for t up to last, in order;
\* the loop is split in halves to keep the evaluation shallow
RECURSIVE extend_schedule(_, _)
extend_schedule(schedule, last) ==
    IF Len(schedule) >= last THEN schedule
    ELSE IF Len(schedule) + 1 = last
    THEN LET t == Len(schedule) + 1
         IN  Append(schedule,
                 wrapping_add(wrapping_add(wrapping_add(
                     s1(schedule[t - 2]), schedule[t - 7]),
                     s0(schedule[t - 15])), schedule[t - 16]))
    ELSE LET rest(half) == IF Len(half) > 0 THEN extend_schedule(half, last) ELSE <<>>
         IN  rest(extend_schedule(schedule, (Len(schedule) + last) \div 2))

\* the compression rounds t..last in order, lines 27-43; v is
\* <<a, b, c, d, e, f, g, h>>; the loop is split in halves as above
RECURSIVE compress_rounds(_, _, _, _)
compress_rounds(v, schedule, t, last) ==
    IF t = last
    THEN LET rotate(temp1, temp2) ==
                 <<wrapping_add(temp1, temp2), v[1], v[2], v[3],
                   wrapping_add(v[4], temp1), v[5], v[6], v[7]>>
         IN  rotate(wrapping_add(wrapping_add(wrapping_add(wrapping_add(
                        v[8], bs1(v[5])), ch(v[5], v[6], v[7])), K[t]), schedule[t]),
                    wrapping_add(bs0(v[1]), maj(v[1], v[2], v[3])))
    ELSE LET rest(half) ==
                 IF Len(half) = 8
                 THEN compress_rounds(half, schedule, (t + last) \div 2 + 1, last)
                 ELSE <<>>
         IN  rest(compress_rounds(v, schedule, t, (t + last) \div 2))

hash_round(block, state) ==
    LET add(v) ==
            <<wrapping_add(state[1], v[1]), wrapping_add(state[2], v[2]),
              wrapping_add(state[3], v[3]), wrapping_add(state[4], v[4]),
              wrapping_add(state[5], v[5]), wrapping_add(state[6], v[6]),
              wrapping_add(state[7], v[7]), wrapping_add(state[8], v[8])>>
        rounds(schedule) ==
            IF Len(schedule) = 64 THEN add(compress_rounds(state, schedule, 1, 64))
            ELSE <<>>
    IN  rounds(extend_schedule(block, 64))

\* sha256.rs pad, lines 77-93; the length is a u64, below 2^31 here
\* pad without the reduction of k: never a second block
sha256_pad_no_spill(data) ==
    LET last_block_len == Len(data) % sha256_BLOCK_BYTES
        k == 448 - last_block_len * 8 - 1
        zero_bytes_to_add == (k + 1) \div 8 - 1
        bits == Len(data) * 8
    IN  data \o <<128>> \o Tup([z \in 1..zero_bytes_to_add |-> 0], zero_bytes_to_add)
             \o Tup([z \in 1..8 |-> IF z <= 4 THEN 0
                                     ELSE (bits \div Pow2(8 * (8 - z))) % 256], 8)

sha256_pad(data) ==
    LET last_block_len == Len(data) % sha256_BLOCK_BYTES
        k == (512 + 448 - last_block_len * 8 - 1) % 512
        zero_bytes_to_add == (k + 1) \div 8 - 1
        bits == Len(data) * 8
    IN  data \o <<128>> \o Tup([z \in 1..zero_bytes_to_add |-> 0], zero_bytes_to_add)
             \o Tup([z \in 1..8 |-> IF z <= 4 THEN 0
                                     ELSE (bits \div Pow2(8 * (8 - z))) % 256], 8)

\* block b of parse_blocks, lines 101-109: 16 big-endian words of 4 bytes
parse_block(data, b) ==
    Tup([w \in 1..16 |->
           LET offset == b * sha256_BLOCK_BYTES + (w - 1) * 4
           IN  <<data[offset + 1] * 256 + data[offset + 2],
                 data[offset + 3] * 256 + data[offset + 4]>>], 16)

RECURSIVE hash_blocks(_, _, _)
hash_blocks(padded, b, state) ==
    IF b >= Len(padded) \div sha256_BLOCK_BYTES THEN state
    ELSE LET continue(next) ==
                 IF Len(next) = 8 THEN hash_blocks(padded, b + 1, next) ELSE <<>>
         IN  continue(hash_round(parse_block(padded, b), state))

\* sha256::hash
hash(data) ==
    LET digest(state) ==
            word_to_be_bytes(state[1]) \o word_to_be_bytes(state[2])
              \o word_to_be_bytes(state[3]) \o word_to_be_bytes(state[4])
              \o word_to_be_bytes(state[5]) \o word_to_be_bytes(state[6])
              \o word_to_be_bytes(state[7]) \o word_to_be_bytes(state[8])
        blocks(padded) ==
            IF Len(padded) % sha256_BLOCK_BYTES = 0
            THEN digest(hash_blocks(padded, 0, START_HASH)) ELSE <<>>
    IN  blocks(sha256_pad(data))

-----------------------------------------------------------------------------
(* HMAC, hmac.rs.                                                          *)

hmac_KEY_BYTES == sha256_BLOCK_BYTES

OPAD == Tup([i \in 1..sha256_BLOCK_BYTES |-> 92], sha256_BLOCK_BYTES)

IPAD == Tup([i \in 1..sha256_BLOCK_BYTES |-> 54], sha256_BLOCK_BYTES)

hmac_xor_block(a, b) ==
    Tup([i \in 1..sha256_BLOCK_BYTES |-> xor8(a[i], b[i])], sha256_BLOCK_BYTES)

\* hmac with the two pads exchanged
hmac_pads_swapped(key, message) ==
    LET outer(inner) ==
            IF Len(inner) = DIGEST_BYTES THEN hash(hmac_xor_block(key, IPAD) \o inner)
            ELSE <<>>
    IN  outer(hash(hmac_xor_block(key, OPAD) \o message))

hmac(key, message) ==
    LET outer(inner) ==
            IF Len(inner) = DIGEST_BYTES THEN hash(hmac_xor_block(key, OPAD) \o inner)
            ELSE <<>>
    IN  outer(hash(hmac_xor_block(key, IPAD) \o message))

-----------------------------------------------------------------------------
(* The block cipher, twofish.rs. encrypt_block is a stub there and          *)
(* decrypt_block is not in the file: only the contract is modelled, a       *)
(* keyed permutation of blocks with its inverse.                            *)

twofish_KEY_BYTES == 32

twofish_BLOCK_BYTES == 16

\* the key selects a rotation of the block and an offset for every byte
encrypt_block(key, block) ==
    Tup([i \in 1..twofish_BLOCK_BYTES |->
           (block[((i - 1 + key[1]) % twofish_BLOCK_BYTES) + 1]
              + key[i] + key[i + twofish_BLOCK_BYTES]) % 256], twofish_BLOCK_BYTES)

decrypt_block(key, block) ==
    Tup([j \in 1..twofish_BLOCK_BYTES |->
           LET i == ((j - 1 + 256 - key[1]) % twofish_BLOCK_BYTES) + 1
           IN  (block[i] + 512 - key[i] - key[i + twofish_BLOCK_BYTES]) % 256],
        twofish_BLOCK_BYTES)

-----------------------------------------------------------------------------
(* The authenticated cipher, crypto/mod.rs.                                *)

\* Option<Vec<u8>>
None == [some |-> FALSE, bytes |-> <<>>]

Some(bytes) == [some |-> TRUE, bytes |-> bytes]

xor_block(a, b) ==
    Tup([i \in 1..twofish_BLOCK_BYTES |-> xor8(a[i], b[i])], twofish_BLOCK_BYTES)

repeat(byte, n) == Tup([i \in 1..n |-> byte], n)

\* pad that adds nothing to block-aligned data
pad_only_partial(data) ==
    LET last_block_len == Len(data) % twofish_BLOCK_BYTES
        to_add == (twofish_BLOCK_BYTES - last_block_len) % twofish_BLOCK_BYTES
    IN  data \o repeat(to_add, to_add)

pad(data) ==
    LET last_block_len == Len(data) % twofish_BLOCK_BYTES
        to_add == twofish_BLOCK_BYTES - last_block_len
    IN  data \o repeat(to_add, to_add)

\* remove_padding: the bool it returns and what it leaves in data
remove_padding(data) ==
    IF Len(data) = 0 THEN [ok |-> FALSE, data |-> data]
    ELSE LET last == data[Len(data)]
         IN  IF Len(data) < last THEN [ok |-> FALSE, data |-> data]
             ELSE IF \E i \in (Len(data) - last + 1) .. Len(data) : data[i] # last
                  THEN [ok |-> FALSE, data |-> data]
                  ELSE [ok |-> TRUE, data |-> SubSeq(data, 1, Len(data) - last)]

\* bytemuck::cast_slice / try_cast_slice to twofish::Block
cast_slice_ok(bytes) == Len(bytes) % twofish_BLOCK_BYTES = 0

block_of(bytes, b) ==
    SubSeq(bytes, (b - 1) * twofish_BLOCK_BYTES + 1, b * twofish_BLOCK_BYTES)

\* CompleteCiphertext::serialize
serialize(ciphertext, iv, mac) == mac \o iv \o ciphertext

\* CompleteCiphertext::deserialize: the slice expressions index out of range
deserialize_panics(data) ==
    \/ Len(data) < DIGEST_BYTES
    \/ Len(data) - DIGEST_BYTES < twofish_BLOCK_BYTES

deserialize(data) ==
    [mac |-> SubSeq(data, 1, DIGEST_BYTES),
     iv |-> SubSeq(data, DIGEST_BYTES + 1, DIGEST_BYTES + twofish_BLOCK_BYTES),
     ciphertext |-> SubSeq(data, DIGEST_BYTES + twofish_BLOCK_BYTES + 1, Len(data))]

\* the CBC loop of encrypt, lines 57-62
RECURSIVE encrypt_blocks(_, _, _, _, _)
encrypt_blocks(key, padded, b, xorrer, ciphertext) ==
    IF b > Len(padded) \div twofish_BLOCK_BYTES THEN ciphertext
    ELSE LET continue(next) ==
                 IF Len(next) = twofish_BLOCK_BYTES
                 THEN encrypt_blocks(key, padded, b + 1, next, ciphertext \o next)
                 ELSE <<>>
         IN  continue(encrypt_block(key, xor_block(block_of(padded, b), xorrer)))

\* SymmetricKey::encrypt with the IV the generator returned; its locals
encrypt(key, iv, data) ==
    LET output(padded, ciphertext, mac) ==
            [pc |-> IF cast_slice_ok(padded) THEN "done" ELSE "panicked",
             data |-> data, iv |-> iv, padded |-> padded, ciphertext |-> ciphertext,
             mac |-> mac, out |-> serialize(ciphertext, iv, mac)]
        authenticated(padded, ciphertext) ==
            output(padded, ciphertext, hmac(key[2], iv \o ciphertext))
        chained(padded) ==
            authenticated(padded, encrypt_blocks(key[1], padded, 1, iv, <<>>))
    IN  chained(pad(data))

-----------------------------------------------------------------------------
(* decrypt, mod.rs:77-106, one step per statement. dec_call holds its locals,   *)
(* dec_call.log the calls it has made so far.                                   *)

EncIdle ==
    [pc |-> "idle", data |-> <<>>, iv |-> <<>>, padded |-> <<>>,
     ciphertext |-> <<>>, mac |-> <<>>, out |-> <<>>]

DecIdle ==
    [pc |-> "idle", source |-> "none", data |-> <<>>, mac |-> <<>>, iv |-> <<>>,
     ciphertext |-> <<>>, calculated_mac |-> <<>>, b |-> 0, xorrer |-> <<>>,
     plaintext |-> <<>>, result |-> None, log |-> <<>>]

decrypt_call(data, source) ==
    [DecIdle EXCEPT !.pc = "deserialize", !.source = source, !.data = data]

\* line 82: CompleteCiphertext::deserialize(data)?
decrypt_deserialize(d) ==
    IF deserialize_panics(d.data) THEN [d EXCEPT !.pc = "panicked"]
    ELSE LET c == deserialize(d.data)
         IN  [d EXCEPT !.pc = "mac", !.mac = c.mac, !.iv = c.iv,
                       !.ciphertext = c.ciphertext, !.log = Append(@, "deserialize")]

\* a comparison that looks at the first half of the digests only
mac_differs_half(mac, calculated_mac) ==
    SubSeq(mac, 1, DIGEST_BYTES \div 2) # SubSeq(calculated_mac, 1, DIGEST_BYTES \div 2)

\* line 85: mac != calculated_mac
mac_differs(mac, calculated_mac) == mac # calculated_mac

\* a MAC check whose result is not acted on
decrypt_check_mac_ignored(d, calculated_mac) ==
    [d EXCEPT !.pc = "cast", !.calculated_mac = calculated_mac,
              !.log = @ \o <<"hmac", "compare">>]

\* lines 84-87
decrypt_check_mac(d, calculated_mac) ==
    IF mac_differs(d.mac, calculated_mac)
    THEN [d EXCEPT !.pc = "done", !.result = None, !.calculated_mac = calculated_mac,
                   !.log = @ \o <<"hmac", "compare">>]
    ELSE [d EXCEPT !.pc = "cast", !.calculated_mac = calculated_mac,
                   !.log = @ \o <<"hmac", "compare">>]

\* lines 88-93
decrypt_cast(d) ==
    IF ~cast_slice_ok(d.ciphertext)
    THEN [d EXCEPT !.pc = "done", !.result = None, !.log = Append(@, "try_cast_slice")]
    ELSE [d EXCEPT !.pc = IF Len(d.ciphertext) = 0 THEN "padding" ELSE "blocks",
                   !.b = 1, !.xorrer = d.iv, !.log = Append(@, "try_cast_slice")]

\* a loop that keeps the IV as the xorrer of every block
decrypt_next_xorrer_stale(block, xorrer) == xorrer

\* line 97: xorrer = *block
decrypt_next_xorrer(block, xorrer) == block

\* lines 94-99, one iteration
decrypt_iteration(key, d) ==
    LET block == block_of(d.ciphertext, d.b)
        decrypted == decrypt_block(key[1], block)
        xored == xor_block(decrypted, d.xorrer)
    IN  [d EXCEPT !.pc = IF d.b * twofish_BLOCK_BYTES = Len(d.ciphertext)
                         THEN "padding" ELSE "blocks",
                  !.b = @ + 1, !.xorrer = decrypt_next_xorrer(block, @),
                  !.plaintext = @ \o xored, !.log = Append(@, "decrypt_block")]

\* lines 101-105; dec_call.plaintext keeps what the loop produced
decrypt_finish(d) ==
    LET removed == remove_padding(d.plaintext)
    IN  [d EXCEPT !.pc = "done", !.log = Append(@, "remove_padding"),
                  !.result = IF removed.ok THEN Some(removed.data) ELSE None]

-----------------------------------------------------------------------------
(* The calls made on one SymmetricKey.                                     *)

\* the longest plaintext encrypted
MaxLen == 17

SymmetricKeys ==
    { <<Tup([i \in 1..twofish_KEY_BYTES |-> (s + 7 * i) % 256], twofish_KEY_BYTES),
        Tup([i \in 1..hmac_KEY_BYTES |-> (3 * s + 11 * i) % 256], hmac_KEY_BYTES)>>
      : s \in {1, 200} }

\* what OsRng.fill_bytes may leave in iv
IVs ==
    { repeat(0, twofish_BLOCK_BYTES),
      Tup([i \in 1..twofish_BLOCK_BYTES |-> (29 * i + 131) % 256], twofish_BLOCK_BYTES) }

\* one plaintext of every length; its bytes are values a padding byte can have
Plaintexts == { Tup([i \in 1..n |-> (n + i) % 17], n) : n \in 0..MaxLen }

flip_bit(data, pos) ==
    [data EXCEPT ![(pos \div 8) + 1] = xor8(@, Pow2(pos % 8))]

\* the first and the last bit of the MAC field, a bit of the IV field, and
\* the first byte's and the last byte's low bit in the ciphertext field
TamperBits(data) ==
    { 7,
      8 * DIGEST_BYTES - 8,
      8 * DIGEST_BYTES + 11,
      8 * (DIGEST_BYTES + twofish_BLOCK_BYTES),
      8 * Len(data) - 8 }

\* decrypted contents that pad does not produce
UnpaddedContents ==
    { <<>>,
      repeat(7, 15) \o <<0>>,
      repeat(9, 15) \o repeat(17, 17),
      repeat(7, 15) \o <<200>>,
      repeat(7, 13) \o <<3, 4, 3>>,
      repeat(16, 16) }

\* records the holder of the key can make without going through pad
AuthenticatedRecords(key) ==
    { serialize(ciphertext, repeat(0, twofish_BLOCK_BYTES),
                hmac(key[2], repeat(0, twofish_BLOCK_BYTES) \o ciphertext))
        : ciphertext \in
            { encrypt_blocks(key[1], content, 1, repeat(0, twofish_BLOCK_BYTES), <<>>)
                : content \in UnpaddedContents } \cup { repeat(5, 17) } }

ArbitraryRecords == { repeat(171, n) : n \in {0, 1, 31, 32, 47, 48, 49, 64} }

CiIdleInit ==
    /\ skey = <<>>
    /\ enc_call = EncIdle
    /\ dec_call = DecIdle

CiInit ==
    /\ skey \in SymmetricKeys
    /\ enc_call = EncIdle
    /\ dec_call = DecIdle

\* key.encrypt(data)
Encrypt ==
    /\ enc_call.pc = "idle"
    /\ dec_call.pc = "idle"
    /\ \E iv \in IVs, data \in Plaintexts :
        enc_call' = encrypt(skey, iv, data)
    /\ UNCHANGED <<skey, dec_call, pw_vars, kx_vars, fn_vars, fin_vars>>

\* key.decrypt on what encrypt returned
DecryptOwn ==
    /\ enc_call.pc = "done"
    /\ dec_call.pc = "idle"
    /\ dec_call' = decrypt_call(enc_call.out, "own")
    /\ UNCHANGED <<skey, enc_call, pw_vars, kx_vars, fn_vars, fin_vars>>

\* key.decrypt on what encrypt returned with one bit flipped on the way
DecryptTampered ==
    /\ enc_call.pc = "done"
    /\ dec_call.pc = "idle"
    /\ \E pos \in TamperBits(enc_call.out) :
        dec_call' = decrypt_call(flip_bit(enc_call.out, pos), "tampered")
    /\ UNCHANGED <<skey, enc_call, pw_vars, kx_vars, fn_vars, fin_vars>>

\* key.decrypt on a record with a valid MAC that encrypt did not make
DecryptAuthenticated ==
    /\ enc_call.pc = "idle"
    /\ dec_call.pc = "idle"
    /\ \E data \in AuthenticatedRecords(skey) :
        dec_call' = decrypt_call(data, "authenticated")
    /\ UNCHANGED <<skey, enc_call, pw_vars, kx_vars, fn_vars, fin_vars>>

\* key.decrypt on bytes of any length
DecryptArbitrary ==
    /\ enc_call.pc = "idle"
    /\ dec_call.pc = "idle"
    /\ \E data \in ArbitraryRecords :
        dec_call' = decrypt_call(data, "arbitrary")
    /\ UNCHANGED <<skey, enc_call, pw_vars, kx_vars, fn_vars, fin_vars>>

DecryptDeserialize ==
    /\ dec_call.pc = "deserialize"
    /\ dec_call' = decrypt_deserialize(dec_call)
    /\ UNCHANGED <<skey, enc_call, pw_vars, kx_vars, fn_vars, fin_vars>>

DecryptCheckMac ==
    /\ dec_call.pc = "mac"
    /\ dec_call' = decrypt_check_mac(dec_call, hmac(skey[2],
                  SubSeq(dec_call.data, DIGEST_BYTES + 1, Len(dec_call.data))))
    /\ UNCHANGED <<skey, enc_call, pw_vars, kx_vars, fn_vars, fin_vars>>

DecryptCast ==
    /\ dec_call.pc = "cast"
    /\ dec_call' = decrypt_cast(dec_call)
    /\ UNCHANGED <<skey, enc_call, pw_vars, kx_vars, fn_vars, fin_vars>>

DecryptBlock ==
    /\ dec_call.pc = "blocks"
    /\ dec_call' = decrypt_iteration(skey, dec_call)
    /\ UNCHANGED <<skey, enc_call, pw_vars, kx_vars, fn_vars, fin_vars>>

DecryptFinish ==
    /\ dec_call.pc = "padding"
    /\ dec_call' = decrypt_finish(dec_call)
    /\ UNCHANGED <<skey, enc_call, pw_vars, kx_vars, fn_vars, fin_vars>>

CiNext ==
    \/ Encrypt
    \/ DecryptOwn
    \/ DecryptTampered
    \/ DecryptAuthenticated
    \/ DecryptArbitrary
    \/ DecryptDeserialize
    \/ DecryptCheckMac
    \/ DecryptCast
    \/ DecryptBlock
    \/ DecryptFinish

-----------------------------------------------------------------------------
(* Single calls of the library's functions. Each action makes one call on  *)
(* an input drawn from a bounded set and records it with what it returned. *)

\* longest message handed to pad
MaxPadLen == 130

\* hash of "", of "abc", and of a 56-byte message whose padding spills into a
\* second block
CallHash ==
    /\ call.fn = "none"
    /\ \E data \in
            { <<>>,
              <<97, 98, 99>>,
              <<97, 98, 99, 100, 98, 99, 100, 101, 99, 100, 101, 102, 100, 101,
              102, 103, 101, 102, 103, 104, 102, 103, 104, 105, 103, 104, 105,
              106, 104, 105, 106, 107, 105, 106, 107, 108, 106, 107, 108, 109,
              107, 108, 109, 110, 108, 109, 110, 111, 109, 110, 111, 112, 110,
              111, 112, 113>> } :
         call' = [fn |-> "hash", args |-> <<data>>, result |-> hash(data)]
    /\ UNCHANGED <<gen, pw_vars, kx_vars, ci_vars, fin_vars>>

\* pad of a message of every length up to MaxPadLen, with 0x00 and 0x80 among
\* its bytes
CallPad ==
    /\ call.fn = "none"
    /\ \E n \in 0..MaxPadLen :
         LET data == Tup([i \in 1..n |-> (128 * i + n) % 256], n)
         IN  call' = [fn |-> "pad", args |-> <<data>>, result |-> sha256_pad(data)]
    /\ UNCHANGED <<gen, pw_vars, kx_vars, ci_vars, fin_vars>>

\* hmac under three 64-byte keys, of messages shorter than, as long as and
\* longer than what fits the inner hash's second block
CallHmac ==
    /\ call.fn = "none"
    /\ \E seed \in {0, 7, 131},
          message \in { <<>>, <<97, 98, 99>>, repeat(221, 55), repeat(54, 64) } :
         LET key == Tup([i \in 1..hmac_KEY_BYTES |-> (seed * i + 11) % 256], hmac_KEY_BYTES)
         IN  call' = [fn |-> "hmac", args |-> <<key, message>>, result |-> hmac(key, message)]
    /\ UNCHANGED <<gen, pw_vars, kx_vars, ci_vars, fin_vars>>

\* inv_pow on every base and exponent an Int can hold; the result is <<>>
\* where Q.checked_sub(exp).unwrap() panics
CallInvPow ==
    /\ call.fn = "none"
    /\ \E base \in IntRange, exp \in IntRange :
         call' = [fn |-> "inv_pow", args |-> <<base, exp>>,
                  result |-> IF inv_pow_panics(exp) THEN <<>> ELSE <<inv_pow(base, exp)>>]
    /\ UNCHANGED <<gen, pw_vars, kx_vars, ci_vars, fin_vars>>

\* to_elgamal_int on every SymmetricKey, and from_elgamal_int on what it gave
CallEmbed ==
    /\ call.fn = "none"
    /\ \E key \in EgSymmetricKeys :
         call' = [fn |-> "embed", args |-> <<key>>,
                  result |-> <<to_elgamal_int(key), from_elgamal_int(to_elgamal_int(key))>>]
    /\ UNCHANGED <<gen, pw_vars, kx_vars, ci_vars, fin_vars>>

\* Alice::extract_shared_secret on any ephemeral message of the wire's width,
\* Alice holding the secret a and Bob having sent key under the exponent b
CallExtract ==
    /\ call.fn = "none"
    /\ \E a \in {1, 5, 10}, key \in EgSymmetricKeys, b \in {3, 10},
          public \in IntRange, enc \in IntRange :
         call' = [fn |-> "extract", args |-> <<a, key, b, <<public, enc>>>>,
                  result |-> IF inv_pow_panics(a) THEN <<>>
                             ELSE <<Alice_extract_shared_secret(Alice_generate(a), <<public, enc>>)>>]
    /\ UNCHANGED <<gen, pw_vars, kx_vars, ci_vars, fin_vars>>

FnNext ==
    \/ CallHash
    \/ CallPad
    \/ CallHmac
    \/ CallInvPow
    \/ CallEmbed
    \/ CallExtract
    \/ CallHmac

-----------------------------------------------------------------------------
(* generate_exponent, elgamal.rs:17-25, step by step: the draw from the    *)
(* random source and the test of what was drawn. gen.exps lists what the   *)
(* calls made so far returned.                                             *)

\* calls of generate_exponent in one run
MaxCalls == 2

\* fn generate_exponent() is entered
GenCall ==
    /\ gen.pc \in {"idle", "returned"}
    /\ Len(gen.exps) < MaxCalls
    /\ gen' = [gen EXCEPT !.pc = "draw", !.retried = FALSE]
    /\ UNCHANGED <<call, pw_vars, kx_vars, ci_vars, fin_vars>>

\* let x = Int::random_mod(&mut OsRng, &NONZERO_Q)
GenDraw ==
    /\ gen.pc = "draw"
    /\ \E x \in random_mod_Q : gen' = [gen EXCEPT !.pc = "test", !.x = x]
    /\ UNCHANGED <<call, pw_vars, kx_vars, ci_vars, fin_vars>>

\* if x != Int::ZERO { return x }, else the loop goes round
GenTest ==
    /\ gen.pc = "test"
    /\ gen' = IF generate_exponent_returns(gen.x)
              THEN [gen EXCEPT !.pc = "returned", !.exps = Append(@, gen.x)]
              ELSE [gen EXCEPT !.pc = "draw", !.retried = TRUE]
    /\ UNCHANGED <<call, pw_vars, kx_vars, ci_vars, fin_vars>>

GenNext ==
    \/ GenCall
    \/ GenDraw
    \/ GenTest

-----------------------------------------------------------------------------
(* The final screen, main.rs:80-128 and 299-430. ui holds the fields of    *)
(* MyEguiApp::Final; encryptor and decryptor are the two worker threads,   *)
(* each with the channel that carries its requests and the channel that    *)
(* carries its responses. The workers run encrypt and decrypt on the       *)
(* screen's key, skey, with enc_call and dec_call as their locals. A       *)
(* String is its UTF-8 bytes; a String that is read as base64 is a text,   *)
(* [b64, bytes]. A panic of the UI thread ends the process.                *)

\* MyEguiApp::new_final(key): both threads spawned, waiting in recv()
FinInit ==
    /\ skey \in SymmetricKeys
    /\ enc_call = EncIdle
    /\ dec_call = DecIdle
    /\ ui = [pc |-> "running",
             encrypt_input |-> <<>>, encrypt_output |-> b64_encode(<<>>),
             encrypt_enabled |-> TRUE, encrypting |-> FALSE,
             decrypt_input |-> b64_encode(<<>>), decrypt_output |-> <<>>,
             decrypt_enabled |-> TRUE, decrypting |-> FALSE,
             failed_to_decrypt |-> FALSE]
    /\ encryptor = [pc |-> "recv", requests |-> <<>>, responses |-> <<>>]
    /\ decryptor = [pc |-> "recv", requests |-> <<>>, responses |-> <<>>]

\* what a peer made of the byte 0xff, which is no UTF-8 text, under each key
PeerRecords ==
    { encrypt(key, repeat(0, twofish_BLOCK_BYTES), <<255>>).out : key \in SymmetricKeys }

\* a text field that takes input whatever the pending request
text_edit_always_enabled(pending) == TRUE

\* ui.add_enabled(!*encrypting, TextEdit::multiline(encrypt_input)), and the
\* same with decrypting
text_edit_enabled(pending) == ~pending

\* One frame of update on the final screen. The user may have typed a new
\* text into the encrypt field and pasted one into the decrypt field (one
\* that is not base64, the empty text, 64 bytes that no key authenticates,
\* the output of the encrypt column, or a record of PeerRecords), and may
\* have clicked either button; a field or button that is disabled takes no
\* input.
Update ==
    /\ ui.pc = "running"
    /\ \E pasted \in {ui.decrypt_input, [b64 |-> FALSE, bytes |-> <<>>], b64_encode(<<>>),
                      b64_encode(repeat(171, 64)), ui.encrypt_output}
                         \cup {b64_encode(record) : record \in PeerRecords},
          decrypt_clicked \in BOOLEAN,
          typed \in {ui.encrypt_input, <<>>, <<104, 105>>},
          encrypt_clicked \in BOOLEAN :
         LET \* lines 313-322: try_recv on the encrypt responses
             e_received == ui.encrypting /\ encryptor.responses # <<>>
             e_disconnected ==
                 ui.encrypting /\ encryptor.responses = <<>> /\ encryptor.pc = "dead"
             encrypting == ui.encrypting /\ ~e_received
             \* lines 324-337: try_recv on the decrypt responses
             d_received == ui.decrypting /\ decryptor.responses # <<>>
             d_disconnected ==
                 ui.decrypting /\ decryptor.responses = <<>> /\ decryptor.pc = "dead"
             decrypting == ui.decrypting /\ ~d_received
             \* lines 341-377: the encrypt column
             e_changed == text_edit_enabled(encrypting) /\ typed # ui.encrypt_input
             encrypt_input == IF e_changed THEN typed ELSE ui.encrypt_input
             e_send == (e_changed \/ ui.encrypt_enabled) /\ encrypt_clicked
             \* lines 384-421: the decrypt column
             d_changed == text_edit_enabled(decrypting) /\ pasted # ui.decrypt_input
             decrypt_input == IF d_changed THEN pasted ELSE ui.decrypt_input
             d_send == (d_changed \/ ui.decrypt_enabled) /\ decrypt_clicked
         IN  IF \/ e_disconnected
                \/ d_disconnected
                \/ e_send /\ encryptor.pc = "dead"
                \/ d_send /\ decryptor.pc = "dead"
             THEN \* unreachable!(), or send(..).unwrap() on a closed channel
                  /\ ui' = [ui EXCEPT !.pc = "panicked"]
                  /\ UNCHANGED <<encryptor, decryptor>>
             ELSE /\ ui' =
                       [pc |-> "running",
                        encrypt_input |-> encrypt_input,
                        encrypt_output |->
                            IF e_changed THEN b64_encode(<<>>)
                            ELSE IF e_received THEN Head(encryptor.responses)
                            ELSE ui.encrypt_output,
                        encrypt_enabled |-> (e_changed \/ ui.encrypt_enabled) /\ ~e_send,
                        encrypting |-> encrypting \/ e_send,
                        decrypt_input |-> decrypt_input,
                        decrypt_output |->
                            IF d_changed THEN <<>>
                            ELSE IF d_received /\ Head(decryptor.responses).some
                            THEN Head(decryptor.responses).bytes
                            ELSE ui.decrypt_output,
                        decrypt_enabled |-> (d_changed \/ ui.decrypt_enabled) /\ ~d_send,
                        decrypting |-> decrypting \/ d_send,
                        failed_to_decrypt |->
                            IF d_changed THEN FALSE
                            ELSE IF d_received /\ ~Head(decryptor.responses).some THEN TRUE
                            ELSE ui.failed_to_decrypt]
                  /\ encryptor' =
                       [encryptor EXCEPT
                          !.responses = IF e_received THEN Tail(@) ELSE @,
                          !.requests = IF e_send THEN Append(@, encrypt_input) ELSE @]
                  /\ decryptor' =
                       [decryptor EXCEPT
                          !.responses = IF d_received THEN Tail(@) ELSE @,
                          !.requests = IF d_send THEN Append(@, decrypt_input) ELSE @]
    /\ UNCHANGED <<pw_vars, kx_vars, ci_vars, fn_vars>>

\* lines 85-87: remote_erx.recv().unwrap() returns, ekey.encrypt(..) runs
EncryptWorkerRecv ==
    /\ ui.pc = "running"
    /\ encryptor.pc = "recv"
    /\ encryptor.requests # <<>>
    /\ \E iv \in IVs : enc_call' = encrypt(skey, iv, Head(encryptor.requests))
    /\ encryptor' = [encryptor EXCEPT !.pc = "busy", !.requests = Tail(@)]
    /\ UNCHANGED <<ui, decryptor, skey, dec_call, pw_vars, kx_vars, fn_vars>>

\* lines 88-89: the base64 of what encrypt returned is sent; a panic in
\* encrypt ends the thread and closes its channels
EncryptWorkerSend ==
    /\ ui.pc = "running"
    /\ encryptor.pc = "busy"
    /\ encryptor' =
         IF enc_call.pc = "panicked" THEN [encryptor EXCEPT !.pc = "dead", !.requests = <<>>]
         ELSE [encryptor EXCEPT !.pc = "recv", !.responses = Append(@, b64_encode(enc_call.out))]
    /\ enc_call' = EncIdle
    /\ UNCHANGED <<ui, decryptor, skey, dec_call, pw_vars, kx_vars, fn_vars>>

\* lines 96-101: remote_drx.recv().unwrap() returns; a text that is not
\* base64 is answered with None, any other is handed to key.decrypt, whose
\* statements are the steps DecryptDeserialize .. DecryptFinish
DecryptWorkerRecv ==
    /\ ui.pc = "running"
    /\ decryptor.pc = "recv"
    /\ decryptor.requests # <<>>
    /\ IF b64_decode_ok(Head(decryptor.requests))
       THEN /\ dec_call' = decrypt_call(Head(decryptor.requests).bytes, "worker")
            /\ decryptor' = [decryptor EXCEPT !.pc = "busy", !.requests = Tail(@)]
       ELSE /\ dec_call' = dec_call
            /\ decryptor' = [decryptor EXCEPT !.requests = Tail(@),
                                              !.responses = Append(@, None)]
    /\ UNCHANGED <<ui, encryptor, skey, enc_call, pw_vars, kx_vars, fn_vars>>

\* lines 103-112: key.decrypt returned; None is passed on, a plaintext is
\* sent if String::from_utf8 accepts it (the plaintexts here are ASCII or the
\* byte 0xff, which no UTF-8 text contains)
DecryptWorkerSend ==
    /\ ui.pc = "running"
    /\ decryptor.pc = "busy"
    /\ dec_call.pc = "done"
    /\ decryptor' =
         [decryptor EXCEPT
            !.pc = "recv",
            !.responses =
                Append(@, IF /\ dec_call.result.some
                             /\ \A i \in 1..Len(dec_call.result.bytes) :
                                    dec_call.result.bytes[i] < 128
                          THEN dec_call.result ELSE None)]
    /\ dec_call' = DecIdle
    /\ UNCHANGED <<ui, encryptor, skey, enc_call, pw_vars, kx_vars, fn_vars>>

\* key.decrypt panicked: the thread unwinds, which drops remote_drx and
\* remote_dtx and so closes both channels
DecryptWorkerPanic ==
    /\ ui.pc = "running"
    /\ decryptor.pc = "busy"
    /\ dec_call.pc = "panicked"
    /\ decryptor' = [decryptor EXCEPT !.pc = "dead", !.requests = <<>>]
    /\ dec_call' = DecIdle
    /\ UNCHANGED <<ui, encryptor, skey, enc_call, pw_vars, kx_vars, fn_vars>>

FinNext ==
    \/ Update
    \/ EncryptWorkerRecv
    \/ EncryptWorkerSend
    \/ DecryptWorkerRecv
    \/ DecryptDeserialize
    \/ DecryptCheckMac
    \/ DecryptCast
    \/ DecryptBlock
    \/ DecryptFinish
    \/ DecryptWorkerSend
    \/ DecryptWorkerPanic

-----------------------------------------------------------------------------
(* Specifications: one per component, the others idle.                     *)

\* No library function has been called and no exponent is being generated.
FnIdleInit ==
    /\ call = [fn |-> "none", args |-> <<>>, result |-> <<>>]
    /\ gen = [pc |-> "idle", x |-> 0, retried |-> FALSE, exps |-> <<>>]

\* The final screen has not been opened: no fields, no worker threads.
FinIdleInit ==
    /\ ui = [pc |-> "off"]
    /\ encryptor = [pc |-> "off"]
    /\ decryptor = [pc |-> "off"]

InitPow == PwIdleInit /\ KxIdleInit /\ CiIdleInit /\ FnIdleInit /\ FinIdleInit

SpecPow == InitPow /\ [][PwNext]_vars

InitExchange == KxInit /\ PwIdleInit /\ CiIdleInit /\ FnIdleInit /\ FinIdleInit

SpecExchange == InitExchange /\ [][KxNext]_vars

InitCipher == CiInit /\ PwIdleInit /\ KxIdleInit /\ FnIdleInit /\ FinIdleInit

SpecCipher == InitCipher /\ [][CiNext]_vars

InitFunctions == FnIdleInit /\ PwIdleInit /\ KxIdleInit /\ CiIdleInit /\ FinIdleInit

SpecFunctions == InitFunctions /\ [][FnNext]_vars

InitGenerate == FnIdleInit /\ PwIdleInit /\ KxIdleInit /\ CiIdleInit /\ FinIdleInit

\* The thread that runs generate_exponent keeps running, and the random
\* source is fair: it does not return 0 for ever.
SpecGenerate ==
    /\ InitGenerate
    /\ [][GenNext]_vars
    /\ WF_vars(GenDraw)
    /\ WF_vars(GenTest)
    /\ SF_vars(GenDraw /\ gen'.x # 0)

InitFinal == FinInit /\ PwIdleInit /\ KxIdleInit /\ FnIdleInit

SpecFinal == InitFinal /\ [][FinNext]_vars

-----------------------------------------------------------------------------
(* Key exchange: C1, C7 *)

\* C1: when Alice's public key reached Bob and Bob's ephemeral message reached
\* Alice unmodified, the key Alice extracts is the key Bob holds, for every
\* secret exponent, session key and ephemeral exponent.
C1_ExchangeCorrect ==
    /\ (app.screen = "AliceComputing" /\ peer.honest /\ app.chan # <<>>) =>
            app.chan[1] = Bob_extract_shared_secret(peer.K)
    /\ (app.screen = "Final" /\ peer.honest /\ app.bob = <<>>) =>
            app.key = Bob_extract_shared_secret(peer.K)
    /\ (peer.honest /\ app.bob = <<>>) => app.screen # "crashed"

\* Alice on the final screen with the key of an honest Bob
C1_Witness ==
    /\ app.screen = "Final"
    /\ peer.honest
    /\ app.bob = <<>>
    /\ app.alice.secret = Q - 1
    /\ peer.b > 1
    /\ to_elgamal_int(peer.K) = RadixPow(EG_BYTE, EG_KEY_BYTES) - 1
    /\ app.key = peer.K

\* C7: a pasted PublicKey or EphemeralMessage whose value is >= p or whose
\* length is wrong is refused without a crash, so no value >= p reaches
\* encrypt_for_alice or extract_shared_secret.
C7_RangeChecked ==
    /\ app.screen = "crashed" => ~b64_decode_ok(app.input)
    /\ app.thread = "encrypt" =>
          /\ app.pk < P
          /\ Len(app.input.bytes) = INT_BYTES
    /\ app.thread = "extract" =>
          /\ app.eph[1] < P /\ app.eph[2] < P
          /\ Len(app.input.bytes) = 2 * INT_BYTES

\* a value >= p in the hands of the thread that runs encrypt_for_alice
C7_Witness == app.thread = "encrypt" /\ app.pk >= P /\ Len(app.input.bytes) = INT_BYTES

-----------------------------------------------------------------------------
(* C9, C10 *)

\* base^exp mod p by repeated multiplication
RECURSIVE RefPow(_, _)
RefPow(base, exp) == IF exp = 0 THEN 1 % P ELSE (RefPow(base, exp - 1) * (base % P)) % P

\* C9: pow(base, exp) returns base^exp mod p for every base and exponent of
\* the width, its result is below p, and pow(base, 0) = 1.
C9_PowIsModExp ==
    pw_pc[1] = "done" =>
        /\ pw_st[1].result = RefPow(pw_base, pw_exp[1])
        /\ pw_st[1].result = pow(pw_base, pw_exp[1])
        /\ pw_st[1].result < P
        /\ (pw_exp[1] = 0 => pw_st[1].result = 1)

\* a finished run on a base >= p with an exponent whose top bit is set
C9_Witness ==
    /\ pw_pc[1] = "done"
    /\ pw_base >= P
    /\ pw_exp[1] >= Pow2(BITS - 1)
    /\ pw_st[1].result > 1

\* the operations a run executes at bit position i
OpsAt(t, i) == SelectSeq(t, LAMBDA o : o[2] = i)

\* C10: two runs of pow on the same base execute the same sequence of
\* operations whatever their exponents: at every bit position of the width
\* one result*a multiplication, one select and one a*a squaring, and neither
\* run leaves the loop before the last position.
C10_SameOperations ==
    /\ pw_ops[1] = pw_ops[2]
    /\ pw_st[1].i = pw_st[2].i
    /\ \A r \in 1..2 :
        /\ \A i \in 0 .. (pw_st[r].i - 1) :
             OpsAt(pw_ops[r], i) = << <<"mul", i>>, <<"select", i>>, <<"square", i>> >>
        /\ (pw_pc[r] = "done" => pw_st[r].i = BITS /\ Len(pw_ops[r]) = 3 * BITS)

\* two finished runs whose exponents differ in weight and in length
C10_Witness ==
    /\ pw_pc = <<"done", "done">>
    /\ pw_exp[1] = 0
    /\ pw_exp[2] = Pow2(BITS) - 1
    /\ pw_st[1].result # pw_st[2].result

-----------------------------------------------------------------------------
(* Claims about the authenticated cipher, checked under SpecCipher.        *)

AfterMac == {"try_cast_slice", "decrypt_block", "remove_padding"}

\* C4: in every run of decrypt, what is hashed is iv || ciphertext, every
\* cast, block decryption and padding check comes after the HMAC was computed
\* and compared and found equal to the stored MAC, and a decrypt whose stored
\* MAC differs has returned None having made none of those calls.
C4_VerifyThenDecrypt ==
    /\ dec_call.pc \in {"mac", "cast", "blocks", "padding", "done"} =>
         SubSeq(dec_call.data, DIGEST_BYTES + 1, Len(dec_call.data))
             = dec_call.iv \o dec_call.ciphertext
    /\ \A i \in 1 .. Len(dec_call.log) :
         dec_call.log[i] \in AfterMac =>
             /\ \E j \in 1 .. (i - 1) :
                  dec_call.log[j] = "hmac" /\ dec_call.log[j + 1] = "compare" /\ j + 1 < i
             /\ dec_call.mac = dec_call.calculated_mac
    /\ (Len(dec_call.calculated_mac) > 0 /\ dec_call.mac # dec_call.calculated_mac) =>
         /\ dec_call.pc = "done"
         /\ dec_call.result = None
         /\ dec_call.log = <<"deserialize", "hmac", "compare">>
         /\ dec_call.plaintext = <<>>

C4_Witness ==
    /\ dec_call.source = "arbitrary"
    /\ dec_call.pc = "done"
    /\ Len(dec_call.ciphertext) = twofish_BLOCK_BYTES
    /\ dec_call.mac # dec_call.calculated_mac
    /\ dec_call.result = None

\* C5: decrypt never panics, whatever the length of its input.
C5_NeverPanics == dec_call.pc # "panicked"

\* C6: decrypt returns a plaintext only when the last decrypted byte N is in
\* 1..16 and the last N decrypted bytes all equal N.
C6_PaddingValidated ==
    (dec_call.pc = "done" /\ dec_call.result.some) =>
        /\ Len(dec_call.plaintext) > 0
        /\ LET content == dec_call.plaintext
               N == content[Len(content)]
           IN  /\ 1 <= N
               /\ N <= twofish_BLOCK_BYTES
               /\ N <= Len(content)
               /\ \A i \in (Len(content) - N + 1) .. Len(content) : content[i] = N

-----------------------------------------------------------------------------
(* Claims about single calls of the library's functions, checked under     *)
(* SpecFunctions.                                                          *)

\* C11: hash applied to the three bytes "abc" returns the published SHA-256
\* digest ba7816bf 8f01cfea 414140de 5dae2223 b00361a3 96177a9c b410ff61
\* f20015ad.
C11_HashAbc ==
    (call.fn = "hash" /\ call.args[1] = <<97, 98, 99>>) =>
        call.result =
            <<186, 120, 22, 191, 143, 1, 207, 234, 65, 65, 64, 222, 93, 174, 34, 35,
              176, 3, 97, 163, 150, 23, 122, 156, 180, 16, 255, 97, 242, 0, 21, 173>>

\* hash("abc") was called and returned a digest
C11_Witness ==
    /\ call.fn = "hash"
    /\ call.args[1] = <<97, 98, 99>>
    /\ Len(call.result) = DIGEST_BYTES

\* C16: for a message of L bytes, pad returns the message, then one 0x80
\* byte, then zero bytes, then L*8 as a 64-bit big-endian integer, and the
\* total length is the smallest multiple of 64 that is >= L + 9.
C16_PadLayout ==
    call.fn = "pad" =>
        LET data == call.args[1]
            L == Len(data)
            output == call.result
            total == Len(output)
        IN  /\ total % 64 = 0
            /\ total >= L + 9
            /\ total - 64 < L + 9
            /\ SubSeq(output, 1, L) = data
            /\ output[L + 1] = 128
            /\ \A i \in (L + 2)..(total - 8) : output[i] = 0
            /\ \A i \in (total - 7)..(total - 2) : output[i] = 0
            /\ output[total - 1] * 256 + output[total] = L * 8

\* a message whose last block has 56 bytes or more was padded into one more
\* block than it fills
C16_Witness ==
    /\ call.fn = "pad"
    /\ Len(call.args[1]) % 64 >= 56
    /\ Len(call.args[1]) > 64
    /\ Len(call.result) = 192

\* C12: for every 64-byte key and every message, hmac(key, message) is
\* H((key XOR opad) || H((key XOR ipad) || message)), opad being 64 bytes of
\* 0x5c and ipad 64 bytes of 0x36, with the same hash for both calls.
C12_HmacComposition ==
    call.fn = "hmac" =>
        LET key == call.args[1]
            message == call.args[2]
            key_xor(byte) == Tup([i \in 1..64 |-> xor8(key[i], byte)], 64)
            outer(inner) == IF Len(inner) = 32 THEN hash(key_xor(92) \o inner) ELSE <<>>
        IN  /\ Len(key) = 64
            /\ call.result = outer(hash(key_xor(54) \o message))

\* hmac was called on a non-empty message and returned a digest
C12_Witness ==
    /\ call.fn = "hmac"
    /\ call.args[2] # <<>>
    /\ Len(call.result) = DIGEST_BYTES

\* C14: inv_pow(base, exp) is pow(base, q - exp); for every base of the
\* order-q subgroup and every exp in [1, q-1] it is the inverse of
\* pow(base, exp) modulo p; and it does not panic for any exp in [1, q-1].
C14_InvPowInverse ==
    call.fn = "inv_pow" =>
        LET base == call.args[1]
            exp == call.args[2]
            subgroup == { x \in 1..(P - 1) : RefPow(x, Q) = 1 }
        IN  /\ exp \in 1..(Q - 1) => call.result # <<>>
            /\ call.result # <<>> => call.result[1] = pow(base, Q - exp)
            /\ (base \in subgroup /\ exp \in 1..(Q - 1)) =>
                    (pow(base, exp) * call.result[1]) % P = 1

\* inv_pow returned for a subgroup element other than 1 and an exponent in range
C14_Witness ==
    /\ call.fn = "inv_pow"
    /\ call.args[1] \in 2..(P - 1)
    /\ RefPow(call.args[1], Q) = 1
    /\ call.args[2] \in 2..(Q - 1)
    /\ call.result # <<>>
    /\ call.result[1] > 1

\* C15: for every SymmetricKey K, to_elgamal_int(K) is the big-endian integer
\* of the cipher subkey's bytes followed by the MAC subkey's bytes, it is
\* strictly less than p, and from_elgamal_int(to_elgamal_int(K)) = K.
C15_EmbedRoundTrip ==
    call.fn = "embed" =>
        LET key == call.args[1]
            bytes == key[1] \o key[2]
            n == Len(bytes)
            int == call.result[1]
        IN  /\ n = EG_KEY_BYTES
            /\ int >= 0
            /\ int < RadixPow(EG_BYTE, n)
            /\ \A i \in 1..n : (int \div RadixPow(EG_BYTE, n - i)) % EG_BYTE = bytes[i]
            /\ int < P
            /\ call.result[2] = key

\* a key whose two subkeys differ and are not palindromes went there and back
C15_Witness ==
    /\ call.fn = "embed"
    /\ call.args[1][1] = <<0, 1>>
    /\ call.args[1][2] = <<1, 1>>
    /\ call.result[1] = 7

\* C17 as stated: for every ephemeral message (B', C') that differs from the
\* honest (B, C), Alice.extract_shared_secret returns a SymmetricKey without
\* signalling an error, and the key it returns is different from Bob's K.
C17_TamperedKeyDiffers ==
    (call.fn = "extract"
        /\ call.args[4] # Bob_encrypt_for_alice(call.args[2], Alice_generate(call.args[1]).public, call.args[3])) =>
        /\ call.result # <<>>
        /\ call.result[1] # Bob_extract_shared_secret(call.args[2])

\* C17, amended: for every ephemeral message (B', C') that differs from the
\* honest (B, C), Alice.extract_shared_secret returns a SymmetricKey without
\* signalling an error; the key is the low key-width bytes of
\* C' * B'^(q-a) mod p, and it is Bob's K exactly when that residue agrees
\* with K's integer modulo 2^(key bits).
C17_TamperedKeyUnchecked ==
    (call.fn = "extract"
        /\ call.args[4] # Bob_encrypt_for_alice(call.args[2], Alice_generate(call.args[1]).public, call.args[3])) =>
        LET a == call.args[1]
            key == call.args[2]
            public == call.args[4][1]
            enc == call.args[4][2]
            residue == ((enc % P) * RefPow(public, Q - a)) % P
            width == RadixPow(EG_BYTE, EG_KEY_BYTES)
        IN  /\ call.result # <<>>
            /\ call.result[1] \in EgSymmetricKeys
            /\ to_elgamal_int(call.result[1]) = residue % width
            /\ (call.result[1] = key) <=> (residue % width = to_elgamal_int(key))

\* a message other than the honest one, both of its values below p and its
\* first value Bob's own, gave Alice the key Bob holds
C17_Witness ==
    /\ call.fn = "extract"
    /\ call.args[4] # Bob_encrypt_for_alice(call.args[2], Alice_generate(call.args[1]).public, call.args[3])
    /\ call.args[4][1] = pow(G, call.args[3])
    /\ call.args[4][2] < P
    /\ call.args[2] # <<<<0, 0>>, <<0, 0>>>>
    /\ call.result = <<call.args[2]>>

-----------------------------------------------------------------------------
(* Claim about generate_exponent, checked under SpecGenerate.              *)

\* C13: generate_exponent draws from [0, q-1] and draws again whenever the
\* draw is exactly 0, so every value it returns lies in [1, q-1]; and under a
\* random source that does not return 0 for ever, every call returns.
C13_GenerateExponent ==
    /\ [](gen.pc = "test" => gen.x \in 0..(Q - 1))
    /\ [][(gen.pc = "test" /\ gen.x = 0) => gen'.pc = "draw"]_vars
    /\ [][(gen.pc = "test" /\ gen.x # 0) => (gen'.pc = "returned" /\ gen'.exps = Append(gen.exps, gen.x))]_vars
    /\ [](\A i \in 1..Len(gen.exps) : gen.exps[i] \in 1..(Q - 1))
    /\ (gen.pc = "draw") ~> (gen.pc = "returned")

\* the second call returned after a draw of 0 and another draw
C13_Witness ==
    /\ gen.pc = "returned"
    /\ gen.retried
    /\ Len(gen.exps) = MaxCalls

-----------------------------------------------------------------------------
(* Claims about the final screen, checked under SpecFinal.                 *)

\* C18: every decrypt request the UI sends, whatever text was pasted, is
\* answered by exactly one message; the decrypt worker thread never dies and
\* the UI never finds its response channel disconnected (unreachable!() is
\* never reached).
C18_WorkerAnswers ==
    /\ decryptor.pc # "dead"
    /\ ui.pc # "panicked"
    /\ Len(decryptor.responses) <= 1

\* the decrypt worker died on a request and the UI, still waiting for the
\* answer, panicked in unreachable!()
C18_Witness ==
    /\ decryptor.pc = "dead"
    /\ ui.decrypting
    /\ ui.pc = "panicked"

====
